---------------------------- MODULE Spec2Model ----------------------------
(***************************************************************************)
(* A model of the realtime connection subsystem of nakama-go: the          *)
(* WebSocketAdapter (Connect / Send / Close / IsOpen and the background    *)
(* receive loop `listen`).  The Go source of the adapter is the text that  *)
(* starts at line 21 of src/commands/psql.sh.                              *)
(*                                                                         *)
(* Threads of control: the application threads of `Threads`, and one       *)
(* receive loop per successful Connect (loop l is the goroutine started by *)
(* the Connect that dialed transport l).  The mutex w.mu is the variable   *)
(* mu.  Connect and Send hold it across several steps; Close and the       *)
(* loop's snapshot take and release it within one step.  The loop's        *)
(* evaluation of w.socket at line 131 is done WITHOUT the mutex: it reads  *)
(* whatever the field holds at that moment (a racy read of a pointer-sized *)
(* field observes the value before or after a concurrent write, which the  *)
(* interleaving of steps already enumerates).                              *)
(*                                                                         *)
(* The module also models the session-lifecycle logic of src/client.go:    *)
(* the pre-flight gate of the authenticated operations (AddGroupUsers,     *)
(* AddFriends) and RefreshSession, run by the same application threads on  *)
(* one Session object that they share.  The adapter and the client do not  *)
(* touch each other's state; each has its own specification.  So has the  *)
(* data codec of the adapter (handleEncodedData on the way out,            *)
(* decodeReceivedData and the second json.Marshal on the way in), whose    *)
(* specification follows one envelope object through Send, a relay by the  *)
(* server and the receive loop.  A further specification of the adapter    *)
(* lets the callbacks call IsOpen() or Close() on the adapter themselves.  *)
(***************************************************************************)
EXTENDS Integers, Sequences, FiniteSets, TLC

\* ---------------------------------------------------------------- bounds
MaxCalls == 3        \* calls the application makes into the adapter, in total
MaxConn == 2         \* successful dials (transports, hence receive loops)
MaxFrames == 1       \* inbound frames the server sends, in total
MaxOrderFrames == 2  \* the same, in the specification of delivery order
MaxOps == 3          \* calls the application makes into the client, in total
MaxTicks == 1        \* times the clock advances
MaxPayloadLen == 3   \* bytes in a data payload
MaxSends == 2        \* times the envelope object is passed to Send

Threads == {1, 2}    \* application threads calling into the adapter
NIL == 0             \* the nil *websocket.Conn
Conns == 1..MaxConn  \* identities of dialed transports / of their loops

VARIABLES
    socket,        \* w.socket: NIL or the transport held
    mu,            \* w.mu: 0 when free, else the application thread holding it
    crashed,       \* TRUE once a goroutine panicked (the process is gone)
    nCalls,        \* calls into the adapter begun so far
    nDialed,       \* transports dialed so far
    tstate,        \* tstate[t]: "unused" | "open" | "closed" (locally closed)
    closes,        \* closes[t]: number of Conn.Close() calls made on t
    remote,        \* remote[t]: "up" | "abnormal" (peer/network closed it)
    inbound,       \* inbound[t]: frames the server sent on t, not yet read
    nFrames,       \* frames the server sent so far
    writing,       \* writing[t]: threads with a WriteMessage on t in progress
    written,       \* written[t]: whole frames written to t
    app,           \* app[th]: [pc, c] position of an application thread
    returned,      \* the return that the last step made, "none" if it made none:
                   \* "ConnectOk" "ConnectErr" "SendOk" "SendNotConnected"
                   \* "SendMarshalErr" "SendWriteErr" of the calls that return
                   \* an error value; "CloseDone" for Close ("CloseAgain" when
                   \* the step before was itself a return of Close); and
                   \* "ListenDone..." for a receive loop that returned
    loop,          \* loop[l]: state of receive loop l
    onOpenCount,   \* invocations of w.onOpen
    onCloseCount,  \* invocations of w.onClose
    delivered      \* [on, log]: when on, log is the frames handed to
                   \* w.onMessage, in the order of the calls

adapterVars == <<socket, mu, crashed, nCalls, nDialed, tstate, closes, remote, inbound,
          nFrames, writing, written, app, returned, loop, onOpenCount,
          onCloseCount, delivered>>

transportVars == <<tstate, closes, remote, inbound, nFrames, writing, written>>

VARIABLES
    session,       \* the caller's Session: [token, refreshToken, expiresAt]
    autoRefresh,   \* c.AutoRefreshSession
    nowMs,         \* time.Now().UnixMilli()
    op,            \* op[th]: the client call application thread th is in
    nOps,          \* calls into the client begun so far
    nIssued,       \* token pairs the server has issued on refresh
    nRefreshReq,   \* refresh requests sent to the server
    nApiCalls,     \* underlying API requests sent to the server
    sentToken,     \* the bearer token of the last underlying API request
    outcome        \* the return that the last step made, "none" if none:
                   \* "OpOk" "OpErr" "OpRefreshErr" of a gated operation,
                   \* "RefreshOk" "RefreshErr" "RefreshNilErr" of a direct
                   \* call of RefreshSession

sessionVars == <<session, autoRefresh, nowMs, op, nOps, nIssued, nRefreshReq,
                 nApiCalls, sentToken, outcome>>

VARIABLES
    given,         \* the envelope as the application built it
    envelope,      \* the envelope object (a map) the application passes to Send
    nSends,        \* times it was passed to Send
    wire,          \* the text frames Send wrote, in order, as JSON objects
    echoOf,        \* which of these frames the server relayed back (0: none)
    incoming,      \* the frame the receive loop has read, as a JSON object
    received       \* the JSON object in the bytes handed to onMessage

codecVars == <<given, envelope, nSends, wire, echoOf, incoming, received>>

vars == <<adapterVars, sessionVars, codecVars>>

\* ------------------------------------------------------------ the adapter

\* IsOpen (lines 49-53): w.socket != nil, read under the mutex.
IsOpen == socket # NIL

\* Mutant: no read error is classified as an unexpected closure.
IsUnexpectedCloseErrorNever(err) == FALSE

\* websocket.IsUnexpectedCloseError(err) with no expected codes (line 141):
\* true exactly of a *CloseError; the error of a read on a locally closed
\* connection ("use of closed network connection") is not one.
IsUnexpectedCloseError(err) == err = "abnormal"

\* A frame: the transport the server sent it on and its number in the order
\* the server sent frames.
NoFrame == [conn |-> NIL, seq |-> 0]

\* A receive loop: its position, the transport its pending ReadMessage is on,
\* the frame it read and has not yet handed to onMessage, the
\* read error it is handling, and the callbacks it has invoked while
\* running (onError for a read error, onError for a parse error, onClose).
\* A goroutine that has returned keeps no state.
IdleLoop == [pc |-> "off", rd |-> NIL, msg |-> NoFrame, err |-> "none",
             nErr |-> 0, nParse |-> 0, nClose |-> 0]
DoneLoop == [IdleLoop EXCEPT !.pc = "done"]

AdapterStart(observe) ==
    /\ socket = NIL
    /\ mu = 0
    /\ crashed = FALSE
    /\ nCalls = 0
    /\ nDialed = 0
    /\ tstate = [t \in Conns |-> "unused"]
    /\ closes = [t \in Conns |-> 0]
    /\ remote = [t \in Conns |-> "up"]
    /\ inbound = [t \in Conns |-> <<>>]
    /\ nFrames = 0
    /\ writing = [t \in Conns |-> {}]
    /\ written = [t \in Conns |-> 0]
    /\ app = [th \in Threads |-> [pc |-> "idle", c |-> NIL]]
    /\ returned = "none"
    /\ loop = [l \in Conns |-> IdleLoop]
    /\ onOpenCount = 0
    /\ onCloseCount = 0
    /\ delivered = [on |-> observe, log |-> <<>>]

\* The adapter as NewWebSocketAdapter returns it; the calls of onMessage are
\* not recorded.
AdapterInit == AdapterStart(FALSE)

\* The step that led here was a return of Close().
CloseReturned == returned \in {"CloseDone", "CloseAgain"}

\* What `returned` records when listen() returns after the read error err.
ListenDone(err) ==
    CASE err = "abnormal" -> "ListenDoneAbnormal"
      [] err = "closed" -> "ListenDoneClosed"
      [] OTHER -> "ListenDoneParse"

\* An application thread may begin a call: it is between calls, the process
\* is alive and the mutex is free (Lock() at the top of every method).  The
\* threads are interchangeable: of the threads that are between calls, the
\* first makes the call.
CanCall(th) ==
    /\ ~crashed
    /\ app[th].pc = "idle"
    /\ mu = 0
    /\ nCalls < MaxCalls
    /\ \A other \in Threads : other < th => app[other].pc # "idle"

\* ------------------------------------------------------------------ Close

\* Mutant: Close reports the closure to the close-callback.
CloseEffectFiresOnClose(s) ==
    [socket |-> NIL, close |-> s # NIL, onClose |-> IF s # NIL THEN 1 ELSE 0]

\* Mutant: Close closes the transport and forgets to clear the field.
CloseEffectKeepsHandle(s) ==
    [socket |-> s, close |-> s # NIL, onClose |-> 0]

\* Close (lines 56-65), under the mutex: if a handle is held, close it and
\* clear the field; no callback is invoked.
CloseEffect(s) ==
    [socket |-> NIL, close |-> s # NIL, onClose |-> 0]

\* The state change of one execution of Close's body on the current handle.
ApplyClose ==
    LET eff == CloseEffect(socket) IN
    /\ socket' = eff.socket
    /\ tstate' = IF eff.close /\ socket # NIL
                 THEN [tstate EXCEPT ![socket] = "closed"] ELSE tstate
    /\ closes' = IF eff.close /\ socket # NIL
                 THEN [closes EXCEPT ![socket] = @ + 1] ELSE closes
    /\ onCloseCount' = onCloseCount + eff.onClose

\* An application thread calls Close().
Close(th) ==
    /\ CanCall(th)
    /\ nCalls' = nCalls + 1
    /\ ApplyClose
    /\ returned' = IF CloseReturned THEN "CloseAgain" ELSE "CloseDone"
    /\ UNCHANGED <<mu, crashed, nDialed, remote, inbound, nFrames, writing,
                   written, app, loop, onOpenCount, delivered>>
    /\ UNCHANGED <<sessionVars, codecVars>>

\* ---------------------------------------------------------------- Connect

\* Mutant: a failed dial leaves the field as it was.
DialAssignKeepsHandle(ok, fresh) == IF ok THEN fresh ELSE socket

\* Line 81: w.socket, _, err = Dial(...).  The field is assigned the dial's
\* result whatever it held before: the new connection, or nil on failure.
DialAssign(ok, fresh) == IF ok THEN fresh ELSE NIL

\* Connect, lines 69-84: take the mutex and dial.  On failure the deferred
\* unlock runs and the error is returned.
ConnectDial(th, ok) ==
    /\ CanCall(th)
    /\ nCalls' = nCalls + 1
    /\ ok => nDialed < MaxConn
    /\ socket' = DialAssign(ok, nDialed + 1)
    /\ IF ok
       THEN /\ nDialed' = nDialed + 1
            /\ tstate' = [tstate EXCEPT ![nDialed + 1] = "open"]
            /\ mu' = th
            /\ app' = [app EXCEPT ![th] = [pc |-> "cOpen", c |-> nDialed + 1]]
            /\ returned' = "none"
       ELSE /\ returned' = "ConnectErr"
            /\ UNCHANGED <<nDialed, tstate, mu, app>>
    /\ UNCHANGED <<crashed, closes, remote, inbound, nFrames, writing, written,
                   loop, onOpenCount, onCloseCount, delivered>>
    /\ UNCHANGED <<sessionVars, codecVars>>

\* Mutant: the open-callback is invoked twice.
OnOpenCallsTwice(c) == 2

\* Lines 86-88: w.onOpen(nil) is called once for the connection dialed (a
\* callback is registered).
OnOpenCalls(c) == 1

\* Connect, lines 86-88, still under the mutex: the open-callback runs on
\* the connecting thread.
ConnectOnOpen(th) ==
    /\ ~crashed
    /\ app[th].pc = "cOpen"
    /\ onOpenCount' = onOpenCount + OnOpenCalls(app[th].c)
    /\ app' = [app EXCEPT ![th].pc = "cSpawn"]
    /\ returned' = "none"
    /\ UNCHANGED <<socket, mu, crashed, nCalls, nDialed, transportVars, loop,
                   onCloseCount, delivered>>
    /\ UNCHANGED <<sessionVars, codecVars>>

\* Connect, lines 90-92: go w.listen(), then return nil (deferred unlock).
ConnectReturn(th) ==
    /\ ~crashed
    /\ app[th].pc = "cSpawn"
    /\ loop' = [loop EXCEPT ![app[th].c] = [IdleLoop EXCEPT !.pc = "start"]]
    /\ mu' = IF mu = th THEN 0 ELSE mu
    /\ app' = [app EXCEPT ![th] = [pc |-> "idle", c |-> NIL]]
    /\ returned' = "ConnectOk"
    /\ UNCHANGED <<socket, crashed, nCalls, nDialed, transportVars,
                   onOpenCount, onCloseCount, delivered>>
    /\ UNCHANGED <<sessionVars, codecVars>>

\* ------------------------------------------------------------------- Send

\* Mutant: the mutex is released after the handle check, before the write.
SendLockReleasedBeforeWrite(th) == 0

\* Mutant: a failed write drops the handle.
SendResultDropsHandle(ok, s) ==
    [ret |-> IF ok THEN "SendOk" ELSE "SendWriteErr",
     socket |-> IF ok THEN s ELSE NIL]

\* Lines 97-98: w.mu.Lock(); defer w.mu.Unlock() -- the mutex stays with the
\* sender until Send returns, so across the transport write.
SendLock(th) == th

\* Lines 118-125: the outcome of the transport write.  A failed write is
\* returned to the caller; the handle is left as it is.
SendResult(ok, s) ==
    [ret |-> IF ok THEN "SendOk" ELSE "SendWriteErr", socket |-> s]

\* Mutant: Send does not check the handle.
NotConnectedNeverChecked(s) == FALSE

\* Lines 100-102: Send refuses to go on without a handle.
NotConnected(s) == s = NIL

\* Send, lines 96-118: take the mutex, check the handle, marshal the message
\* and start the transport write.
SendBegin(th, marshalOk) ==
    /\ CanCall(th)
    /\ nCalls' = nCalls + 1
    /\ IF NotConnected(socket)
       THEN /\ returned' = "SendNotConnected"
            /\ UNCHANGED <<mu, app, writing>>
       ELSE IF ~marshalOk
       THEN /\ returned' = "SendMarshalErr"
            /\ UNCHANGED <<mu, app, writing>>
       ELSE /\ mu' = SendLock(th)
            /\ app' = [app EXCEPT ![th] = [pc |-> "sWrite", c |-> socket]]
            /\ writing' = [writing EXCEPT ![socket] = @ \cup {th}]
            /\ returned' = "none"
    /\ UNCHANGED <<socket, crashed, nDialed, tstate, closes, remote, inbound,
                   nFrames, written, loop, onOpenCount, onCloseCount, delivered>>
    /\ UNCHANGED <<sessionVars, codecVars>>

\* Send, lines 118-126: WriteMessage completes (one whole text frame on
\* success), Send returns and the deferred unlock runs.
SendEnd(th, ok) ==
    /\ ~crashed
    /\ app[th].pc = "sWrite"
    /\ LET t == app[th].c
           res == SendResult(ok, socket) IN
       /\ writing' = [writing EXCEPT ![t] = @ \ {th}]
       /\ written' = IF ok THEN [written EXCEPT ![t] = @ + 1] ELSE written
       /\ socket' = res.socket
       /\ returned' = res.ret
    /\ mu' = IF mu = th THEN 0 ELSE mu
    /\ app' = [app EXCEPT ![th] = [pc |-> "idle", c |-> NIL]]
    /\ UNCHANGED <<crashed, nCalls, nDialed, tstate, closes, remote, inbound,
                   nFrames, loop, onOpenCount, onCloseCount, delivered>>
    /\ UNCHANGED <<sessionVars, codecVars>>

\* ------------------------------------------------------- the receive loop

\* Line 137: the loop fires callbacks and closes only if the handle it
\* snapshotted under the mutex is non-nil (whichever connection that is).
HandleLive(snap) == snap # NIL

\* Mutant: a frame that does not parse ends the loop through Close().
AfterParseErrorCloses == "closing"

\* Line 154: after a frame that does not parse, `continue`.
AfterParseError == "start"

\* listen, line 131: evaluate w.socket (no mutex) and call ReadMessage on it.
\* On a nil handle the call dereferences nil: the goroutine panics and the
\* process dies.
ListenRead(l) ==
    /\ ~crashed
    /\ loop[l].pc = "start"
    /\ IF socket = NIL
       THEN /\ crashed' = TRUE
            /\ loop' = [loop EXCEPT ![l].pc = "panic"]
       ELSE /\ loop' = [loop EXCEPT ![l].pc = "reading", ![l].rd = socket]
            /\ UNCHANGED crashed
    /\ returned' = "none"
    /\ UNCHANGED <<socket, mu, nCalls, nDialed, transportVars, app,
                   onOpenCount, onCloseCount, delivered>>
    /\ UNCHANGED <<sessionVars, codecVars>>

\* listen, lines 131 and 149-155: ReadMessage returns a frame; parses says
\* whether json.Unmarshal accepts it as an object.  A frame that does not
\* parse goes to onError and the loop continues; any other frame is held by
\* the loop for decoding and delivery.
ListenRecv(l, parses) ==
    /\ ~crashed
    /\ loop[l].pc = "reading"
    /\ inbound[loop[l].rd] # <<>>
    /\ LET t == loop[l].rd
           f == Head(inbound[t]) IN
       /\ inbound' = [inbound EXCEPT ![t] = Tail(@)]
       /\ IF parses
          THEN loop' = [loop EXCEPT ![l].pc = "dispatch", ![l].rd = NIL,
                                    ![l].msg = f]
          ELSE loop' = [loop EXCEPT ![l].pc = AfterParseError,
                                    ![l].rd = NIL,
                                    ![l].err = IF AfterParseError = "start"
                                               THEN @ ELSE "parse",
                                    ![l].nParse = @ + 1]
    /\ returned' = "none"
    /\ UNCHANGED <<socket, mu, crashed, nCalls, nDialed, tstate, closes, remote,
                   nFrames, writing, written, app, onOpenCount, onCloseCount,
                   delivered>>
    /\ UNCHANGED <<sessionVars, codecVars>>

\* listen, lines 157-169: the frame is decoded, marshalled again and handed
\* to onMessage on the loop's goroutine, with no mutex held; the loop then
\* goes round.
ListenDispatch(l) ==
    /\ ~crashed
    /\ loop[l].pc = "dispatch"
    /\ delivered' = IF delivered.on
                    THEN [delivered EXCEPT !.log = Append(@, loop[l].msg)]
                    ELSE delivered
    /\ loop' = [loop EXCEPT ![l].pc = "start", ![l].msg = NoFrame]
    /\ returned' = "none"
    /\ UNCHANGED <<socket, mu, crashed, nCalls, nDialed, transportVars, app,
                   onOpenCount, onCloseCount>>
    /\ UNCHANGED <<sessionVars, codecVars>>

\* listen, lines 131-143 and 146: ReadMessage returns an error -- a
\* *CloseError ("abnormal") once the peer or the network closed the
\* transport, or the "closed" error of a connection that was closed locally
\* -- and the loop snapshots w.socket under the mutex.  If the snapshot is
\* nil it breaks; otherwise it calls onError(err), and onClose(nil) for an
\* unexpected close error, with no mutex held.  (The return of the failed
\* read and the snapshot are one step: the error stays pending on the
\* transport, so a read that returns earlier and then waits for the mutex
\* reaches the same states as one that returns later.)
ListenReadErr(l, kind) ==
    /\ ~crashed
    /\ loop[l].pc = "reading"
    /\ \/ kind = "closed" /\ tstate[loop[l].rd] = "closed"
       \/ kind = "abnormal" /\ remote[loop[l].rd] = "abnormal"
    /\ mu = 0
    /\ LET snap == socket
           e == IF HandleLive(snap) THEN 1 ELSE 0
           c == IF HandleLive(snap) /\ IsUnexpectedCloseError(kind) THEN 1 ELSE 0 IN
       /\ loop' = [loop EXCEPT ![l] =
                       IF HandleLive(snap)
                       THEN [@ EXCEPT !.pc = "closing", !.rd = NIL, !.err = kind,
                                      !.nErr = @ + e, !.nClose = @ + c]
                       ELSE DoneLoop]
       /\ onCloseCount' = onCloseCount + c
       /\ returned' = IF HandleLive(snap) THEN "none" ELSE ListenDone(kind)
    /\ UNCHANGED <<socket, mu, crashed, nCalls, nDialed, transportVars, app,
                   onOpenCount, delivered>>
    /\ UNCHANGED <<sessionVars, codecVars>>

\* listen, lines 144-146: w.Close() and break.
ListenClose(l) ==
    /\ ~crashed
    /\ loop[l].pc = "closing"
    /\ mu = 0
    /\ ApplyClose
    /\ loop' = [loop EXCEPT ![l] = DoneLoop]
    /\ returned' = ListenDone(loop[l].err)
    /\ UNCHANGED <<mu, crashed, nCalls, nDialed, remote, inbound, nFrames, writing,
                   written, app, onOpenCount, delivered>>
    /\ UNCHANGED <<sessionVars, codecVars>>

\* ------------------------------------------------------------ environment

\* The server sends one text frame on an open transport, the max-th at
\* most.  Frames are numbered in the order the server sent them.
ServerSendUpTo(t, max) ==
    /\ ~crashed
    /\ tstate[t] = "open"
    /\ remote[t] = "up"
    /\ nFrames < max
    /\ nFrames' = nFrames + 1
    /\ inbound' = [inbound EXCEPT ![t] = Append(@, [conn |-> t, seq |-> nFrames + 1])]
    /\ returned' = "none"
    /\ UNCHANGED <<socket, mu, crashed, nCalls, nDialed, tstate, closes, remote,
                   writing, written, app, loop, onOpenCount, onCloseCount,
                   delivered>>
    /\ UNCHANGED <<sessionVars, codecVars>>

ServerSend(t) == ServerSendUpTo(t, MaxFrames)

\* The server of the specification of delivery order.
ServerSendMore(t) == ServerSendUpTo(t, MaxOrderFrames)

\* The peer or the network closes an open transport: reads on it fail with
\* an unexpected close error from now on.
RemoteFail(t) ==
    /\ ~crashed
    /\ tstate[t] = "open"
    /\ remote[t] = "up"
    /\ remote' = [remote EXCEPT ![t] = "abnormal"]
    /\ returned' = "none"
    /\ UNCHANGED <<socket, mu, crashed, nCalls, nDialed, tstate, closes, inbound,
                   nFrames, writing, written, app, loop, onOpenCount,
                   onCloseCount, delivered>>
    /\ UNCHANGED <<sessionVars, codecVars>>

\* ------------------------------------------ callbacks that call the adapter

\* The methods a callback may call on the adapter it was registered with.
\* Each begins with w.mu.Lock() (lines 50 and 57); sync.Mutex is not
\* reentrant, so the Lock() waits for the mutex to be free whoever holds it,
\* the calling goroutine included.
CallbackCalls == {"IsOpen", "Close"}

\* Connect, lines 86-88: the open-callback runs on the connecting thread,
\* inside Connect (whose deferred unlock has not run), and calls a method of
\* the adapter, which waits in Lock().
ConnectOnOpenCallsIn(th) ==
    /\ ~crashed
    /\ app[th].pc = "cOpen"
    /\ onOpenCount' = onOpenCount + OnOpenCalls(app[th].c)
    /\ app' = [app EXCEPT ![th].pc = "cbLock"]
    /\ returned' = "none"
    /\ UNCHANGED <<socket, mu, crashed, nCalls, nDialed, transportVars, loop,
                   onCloseCount, delivered>>
    /\ UNCHANGED <<sessionVars, codecVars>>

\* listen, lines 161-164: onMessage runs on the loop's goroutine and calls a
\* method of the adapter, which waits in Lock().
ListenDispatchCallsIn(l) ==
    /\ ~crashed
    /\ loop[l].pc = "dispatch"
    /\ delivered' = IF delivered.on
                    THEN [delivered EXCEPT !.log = Append(@, loop[l].msg)]
                    ELSE delivered
    /\ loop' = [loop EXCEPT ![l].pc = "cbLock", ![l].msg = NoFrame]
    /\ returned' = "none"
    /\ UNCHANGED <<socket, mu, crashed, nCalls, nDialed, transportVars, app,
                   onOpenCount, onCloseCount>>
    /\ UNCHANGED <<sessionVars, codecVars>>

\* listen, lines 138-143: onError or onClose, invoked for a read error after
\* the snapshot's unlock and before w.Close(), calls a method of the adapter,
\* which waits in Lock().
ListenErrorCallsIn(l) ==
    /\ ~crashed
    /\ loop[l].pc = "closing"
    /\ loop' = [loop EXCEPT ![l].pc = "cbLock"]
    /\ returned' = "none"
    /\ UNCHANGED <<socket, mu, crashed, nCalls, nDialed, transportVars, app,
                   onOpenCount, onCloseCount, delivered>>
    /\ UNCHANGED <<sessionVars, codecVars>>

\* The Lock() of the method m that a callback called returns, the mutex being
\* free: the method runs (lines 50-53, lines 57-65) and returns, and so does
\* the callback -- into Connect at line 90 for onOpen (who = "app"), into
\* listen for a callback of loop i (who = "loop"): to the next read after
\* onMessage, to w.Close() at line 144 after onError / onClose.
CallbackCallReturns(who, i, m) ==
    /\ ~crashed
    /\ mu = 0
    /\ IF who = "app"
       THEN /\ app[i].pc = "cbLock"
            /\ app' = [app EXCEPT ![i].pc = "cSpawn"]
            /\ UNCHANGED loop
       ELSE /\ loop[i].pc = "cbLock"
            /\ loop' = [loop EXCEPT ![i].pc = IF loop[i].err = "none"
                                              THEN "start" ELSE "closing"]
            /\ UNCHANGED app
    /\ IF m = "Close"
       THEN ApplyClose
       ELSE UNCHANGED <<socket, tstate, closes, onCloseCount>>
    /\ returned' = "none"
    /\ UNCHANGED <<mu, crashed, nCalls, nDialed, remote, inbound, nFrames,
                   writing, written, onOpenCount, delivered>>
    /\ UNCHANGED <<sessionVars, codecVars>>

\* ------------------------------------------------------- the session gate

\* client.go line 15: the lookahead of the expiry check, in milliseconds.
DefaultExpiredTimespanMs == 5 * 60 * 1000

TickMs == 400000           \* what the clock advances by, in milliseconds
TokenLifetimeSec == 600    \* lifetime of the access tokens the server issues
InitExpiries == {200, 600} \* expiry of the first access token, in seconds

\* A token: its identity and the expiry it carries; NoToken is the empty
\* string.  Pair k of tokens is the k-th the server issued.
NoToken == [id |-> 0, exp |-> 0]
Token(k, exp) == [id |-> k, exp |-> exp]

\* The Session an authentication call returned: access token 1 and, if the
\* server gave one, its refresh token.
NewSession(exp, withRefresh) ==
    [token |-> Token(1, exp),
     refreshToken |-> IF withRefresh THEN Token(1, exp) ELSE NoToken,
     expiresAt |-> exp]

\* Session.IsExpired(currentTime): the access token's expiry lies before
\* currentTime (seconds).
IsExpired(s, currentTime) == s.expiresAt - currentTime < 0

\* Session.Update(token, refreshToken): both tokens are replaced in place and
\* the expiry is the one the new access token carries.
SessionUpdate(s, token, refreshToken) ==
    [s EXCEPT !.token = token, !.refreshToken = refreshToken,
              !.expiresAt = token.exp]

\* The condition of the pre-flight gate (lines 325-326 and 342-343).
NeedsRefresh ==
    /\ autoRefresh
    /\ session.refreshToken # NoToken
    /\ IsExpired(session, (nowMs + DefaultExpiredTimespanMs) \div 1000)

\* A client call: its position; whether it is a direct call of
\* RefreshSession; whether the gate found the session due for a refresh;
\* the refresh requests it has made; the access token it found in the
\* Session when it began; the bearer token it evaluated for the
\* underlying request.
IdleOp == [pc |-> "idle", direct |-> FALSE, due |-> FALSE, nReq |-> 0,
           seen |-> 0, tok |-> NoToken]

SessionStart(s, auto) ==
    /\ session = s
    /\ autoRefresh = auto
    /\ nowMs = 0
    /\ op = [th \in Threads |-> IdleOp]
    /\ nOps = 0
    /\ nIssued = 0
    /\ nRefreshReq = 0
    /\ nApiCalls = 0
    /\ sentToken = NoToken
    /\ outcome = "none"

CanBegin(th) ==
    /\ op[th].pc = "idle"
    /\ nOps < MaxOps

\* AddGroupUsers / AddFriends, lines 324-327 and 341-344: the gate evaluates
\* its condition on the Session and, if it holds, calls RefreshSession.
GateCheck(th) ==
    /\ CanBegin(th)
    /\ nOps' = nOps + 1
    /\ op' = [op EXCEPT ![th] =
                 [IdleOp EXCEPT !.pc = IF NeedsRefresh THEN "refresh" ELSE "call",
                                !.due = NeedsRefresh,
                                !.seen = session.token.id]]
    /\ outcome' = "none"
    /\ UNCHANGED <<session, autoRefresh, nowMs, nIssued, nRefreshReq, nApiCalls,
                   sentToken>>
    /\ UNCHANGED <<adapterVars, codecVars>>

\* Mutant: a nil session is not checked for.
IsNilSessionNeverChecked(ref) == FALSE

\* Line 425: session == nil.
IsNilSession(ref) == ref = NIL

\* The application calls RefreshSession itself, on nil or on the Session
\* (lines 424-427): a nil session is refused at once.
RefreshCall(th, ref) ==
    /\ CanBegin(th)
    /\ nOps' = nOps + 1
    /\ IF IsNilSession(ref)
       THEN /\ outcome' = "RefreshNilErr"
            /\ op' = op
       ELSE /\ outcome' = "none"
            /\ op' = [op EXCEPT ![th] =
                         [IdleOp EXCEPT !.pc = "refresh", !.direct = TRUE,
                                        !.seen = session.token.id]]
    /\ UNCHANGED <<session, autoRefresh, nowMs, nIssued, nRefreshReq, nApiCalls,
                   sentToken>>
    /\ UNCHANGED <<adapterVars, codecVars>>

\* RefreshSession, lines 429-440: (the lifetime warnings only log) the
\* refresh request is sent with the Session's current refresh token.
RefreshRequest(th) ==
    /\ op[th].pc = "refresh"
    /\ op' = [op EXCEPT ![th].pc = "refreshing", ![th].nReq = @ + 1]
    /\ nRefreshReq' = nRefreshReq + 1
    /\ outcome' = "none"
    /\ UNCHANGED <<session, autoRefresh, nowMs, nOps, nIssued, nApiCalls,
                   sentToken>>
    /\ UNCHANGED <<adapterVars, codecVars>>

\* Mutant: a failed refresh clears the Session's refresh token.
RefreshResultClearsOnFailure(ok, s, token, refreshToken) ==
    IF ok THEN SessionUpdate(s, token, refreshToken)
    ELSE [s EXCEPT !.refreshToken = NoToken]

\* Lines 442-446: what the Session is after the response -- on an error the
\* function returns before it touches the Session.
RefreshResult(ok, s, token, refreshToken) ==
    IF ok THEN SessionUpdate(s, token, refreshToken) ELSE s

\* Mutant: the gate goes on to the underlying call whatever RefreshSession
\* returned.
AfterRefreshIgnoresError(ok) == "call"

\* Lines 327-329: the gate returns RefreshSession's error, and goes on to the
\* underlying call otherwise.
AfterRefresh(ok) == IF ok THEN "call" ELSE "idle"

\* RefreshSession, lines 437-447: the response of the refresh request -- a
\* new pair of tokens, or an error -- and the return of RefreshSession into
\* the gate or to the application.
RefreshResponse(th, ok) ==
    /\ op[th].pc = "refreshing"
    /\ LET k == nIssued + 2
           exp == (nowMs \div 1000) + TokenLifetimeSec
           next == IF op[th].direct THEN "idle" ELSE AfterRefresh(ok) IN
       /\ session' = RefreshResult(ok, session, Token(k, exp), Token(k, exp))
       /\ nIssued' = IF ok THEN nIssued + 1 ELSE nIssued
       /\ op' = [op EXCEPT ![th] = IF next = "idle" THEN IdleOp
                                   ELSE [@ EXCEPT !.pc = next]]
       /\ outcome' = CASE op[th].direct /\ ok -> "RefreshOk"
                       [] op[th].direct /\ ~ok -> "RefreshErr"
                       [] next = "idle" -> "OpRefreshErr"
                       [] OTHER -> "none"
    /\ UNCHANGED <<autoRefresh, nowMs, nOps, nRefreshReq, nApiCalls, sentToken>>
    /\ UNCHANGED <<adapterVars, codecVars>>

\* Lines 332 and 349: session.Token is evaluated as the bearer token of the
\* underlying call.
ApiPrepare(th) ==
    /\ op[th].pc = "call"
    /\ op' = [op EXCEPT ![th].pc = "sending", ![th].tok = session.token]
    /\ outcome' = "none"
    /\ UNCHANGED <<session, autoRefresh, nowMs, nOps, nIssued, nRefreshReq,
                   nApiCalls, sentToken>>
    /\ UNCHANGED <<adapterVars, codecVars>>

\* Lines 332-337 and 349-354: the underlying request is sent with that
\* token, and the operation returns what the server answered.
ApiSend(th, ok) ==
    /\ op[th].pc = "sending"
    /\ nApiCalls' = nApiCalls + 1
    /\ sentToken' = op[th].tok
    /\ op' = [op EXCEPT ![th] = IdleOp]
    /\ outcome' = IF ok THEN "OpOk" ELSE "OpErr"
    /\ UNCHANGED <<session, autoRefresh, nowMs, nOps, nIssued, nRefreshReq>>
    /\ UNCHANGED <<adapterVars, codecVars>>

\* Time passes.
Tick ==
    /\ nowMs < MaxTicks * TickMs
    /\ nowMs' = nowMs + TickMs
    /\ outcome' = "none"
    /\ UNCHANGED <<session, autoRefresh, op, nOps, nIssued, nRefreshReq,
                   nApiCalls, sentToken>>
    /\ UNCHANGED <<adapterVars, codecVars>>

\* -------------------------------------------------------- the data codec

\* Values of the fields of an envelope.  In the process: absent, a []byte,
\* a string (its bytes), an int or a float64 (of integral value n).  In a
\* JSON text: absent, a string or a number.
Absent == [t |-> "absent", v |-> <<>>, n |-> 0]
Bytes(b) == [t |-> "bytes", v |-> b, n |-> 0]
Str(b) == [t |-> "string", v |-> b, n |-> 0]
IntNum(n) == [t |-> "int", v |-> <<>>, n |-> n]
FloatNum(n) == [t |-> "float64", v |-> <<>>, n |-> n]
JsonNum(n) == [t |-> "number", v |-> <<>>, n |-> n]

\* An envelope with one key: the key and the op_code and data of its value.
Envelope(kind, opCode, data) == [kind |-> kind, opCode |-> opCode, data |-> data]
NoMsg == Envelope("none", Absent, Absent)

\* The base64 alphabet of base64.StdEncoding, as ASCII codes: A-Z a-z 0-9
\* + / and the padding character =.
B64Char(i) ==
    IF i < 26 THEN 65 + i
    ELSE IF i < 52 THEN 97 + (i - 26)
    ELSE IF i < 62 THEN 48 + (i - 52)
    ELSE IF i = 62 THEN 43 ELSE 47

B64Pad == 61

\* The value of a character of the alphabet, -1 for any other character.
B64Index(c) ==
    IF c >= 65 /\ c <= 90 THEN c - 65
    ELSE IF c >= 97 /\ c <= 122 THEN c - 97 + 26
    ELSE IF c >= 48 /\ c <= 57 THEN c - 48 + 52
    ELSE IF c = 43 THEN 62
    ELSE IF c = 47 THEN 63 ELSE 0 - 1

\* base64.StdEncoding.EncodeToString: three bytes to four characters, the
\* last group padded.
RECURSIVE Base64Encode(_)
Base64Encode(b) ==
    IF b = <<>> THEN <<>>
    ELSE IF Len(b) = 1
    THEN <<B64Char(b[1] \div 4), B64Char((b[1] % 4) * 16), B64Pad, B64Pad>>
    ELSE IF Len(b) = 2
    THEN <<B64Char(b[1] \div 4), B64Char((b[1] % 4) * 16 + b[2] \div 16),
           B64Char((b[2] % 16) * 4), B64Pad>>
    ELSE <<B64Char(b[1] \div 4), B64Char((b[1] % 4) * 16 + b[2] \div 16),
           B64Char((b[2] % 16) * 4 + b[3] \div 64), B64Char(b[3] % 64)>>
         \o Base64Encode(SubSeq(b, 4, Len(b)))

CorruptInput == [ok |-> FALSE, v |-> <<>>]

\* Decoding of a text without line breaks: groups of four characters of the
\* alphabet, padding in the last group only.
RECURSIVE Base64DecodeGroups(_)
Base64DecodeGroups(c) ==
    IF c = <<>> THEN [ok |-> TRUE, v |-> <<>>]
    ELSE IF Len(c) < 4 THEN CorruptInput
    ELSE LET i1 == B64Index(c[1])
             i2 == B64Index(c[2])
             i3 == B64Index(c[3])
             i4 == B64Index(c[4])
             b1 == i1 * 4 + i2 \div 16
             b2 == (i2 % 16) * 16 + i3 \div 4
             b3 == (i3 % 4) * 64 + i4
             rest == SubSeq(c, 5, Len(c)) IN
         IF i1 < 0 \/ i2 < 0 THEN CorruptInput
         ELSE IF c[3] = B64Pad
         THEN IF c[4] = B64Pad /\ rest = <<>>
              THEN [ok |-> TRUE, v |-> <<b1>>] ELSE CorruptInput
         ELSE IF i3 < 0 THEN CorruptInput
         ELSE IF c[4] = B64Pad
         THEN IF rest = <<>> THEN [ok |-> TRUE, v |-> <<b1, b2>>] ELSE CorruptInput
         ELSE IF i4 < 0 THEN CorruptInput
         ELSE LET r == Base64DecodeGroups(rest) IN
              IF r.ok THEN [ok |-> TRUE, v |-> <<b1, b2, b3>> \o r.v]
              ELSE CorruptInput

NotLineBreak(c) == c # 10 /\ c # 13

\* base64.StdEncoding.DecodeString: line breaks are skipped.
Base64Decode(c) == Base64DecodeGroups(SelectSeq(c, NotLineBreak))

\* The decimal digits of n >= 0, as ASCII codes.
RECURSIVE Digits(_)
Digits(n) == IF n < 10 THEN <<48 + n>> ELSE Append(Digits(n \div 10), 48 + (n % 10))

\* The digits d without their trailing zeros (the first digit stays).
RECURSIVE StripZeros(_)
StripZeros(d) ==
    IF Len(d) > 1 /\ d[Len(d)] = 48 THEN StripZeros(SubSeq(d, 1, Len(d) - 1)) ELSE d

Abs(n) == IF n < 0 THEN 0 - n ELSE n
Sign(n) == IF n < 0 THEN <<45>> ELSE <<>>

\* %v of an integer: its decimal digits.
FormatInt(n) == Sign(n) \o Digits(Abs(n))

\* %v of a float64 of integral value n (the shortest %g): plain digits below
\* 1e+06 (and 21 digits would be the limit of %f otherwise), else mantissa
\* and exponent, d.ddde+XX with at least two exponent digits.
FormatFloat(n) ==
    LET d == Digits(Abs(n))
        exp == Len(d) - 1
        m == StripZeros(d)
        frac == IF Len(m) > 1 THEN <<46>> \o SubSeq(m, 2, Len(m)) ELSE <<>>
        e == IF exp < 10 THEN <<48>> \o Digits(exp) ELSE Digits(exp) IN
    IF exp < 6 THEN Sign(n) \o d
    ELSE Sign(n) \o <<m[1]>> \o frac \o <<101, 43>> \o e

\* fmt.Sprintf("%v", x).
Sprintf(x) ==
    CASE x.t = "int" -> FormatInt(x.n)
      [] x.t = "float64" -> FormatFloat(x.n)
      [] OTHER -> x.v

IsDigit(c) == c >= 48 /\ c <= 57

\* The value of a string of digits (0 for the empty string).
RECURSIVE DigitsValue(_)
DigitsValue(d) ==
    IF d = <<>> THEN 0 ELSE DigitsValue(SubSeq(d, 1, Len(d) - 1)) * 10 + (d[Len(d)] - 48)

RECURSIVE Pow10(_)
Pow10(k) == IF k = 0 THEN 1 ELSE 10 * Pow10(k - 1)

\* The length of the longest prefix of c made of digits.
RECURSIVE DigitRun(_)
DigitRun(c) == IF c # <<>> /\ IsDigit(c[1]) THEN 1 + DigitRun(Tail(c)) ELSE 0

NotANumber == [ok |-> FALSE, n |-> 0]

\* A number read back from its text: sign, digits, optional fraction,
\* optional exponent e+XX; the value must be integral.
ParseNumber(c) ==
    LET neg == c # <<>> /\ c[1] = 45
        u == IF neg THEN Tail(c) ELSE c
        ni == DigitRun(u)
        int == SubSeq(u, 1, ni)
        r1 == SubSeq(u, ni + 1, Len(u))
        hasFrac == r1 # <<>> /\ r1[1] = 46
        nf == IF hasFrac THEN DigitRun(Tail(r1)) ELSE 0
        frac == IF hasFrac THEN SubSeq(r1, 2, nf + 1) ELSE <<>>
        r2 == IF hasFrac THEN SubSeq(r1, nf + 2, Len(r1)) ELSE r1
        hasExp == Len(r2) >= 3 /\ r2[1] = 101 /\ r2[2] = 43
        ne == IF hasExp THEN DigitRun(SubSeq(r2, 3, Len(r2))) ELSE 0
        exp == IF hasExp THEN DigitsValue(SubSeq(r2, 3, ne + 2)) ELSE 0
        mant == DigitsValue(int \o frac)
        val == mant * Pow10(exp - nf) IN
    IF ni = 0 \/ (hasFrac /\ nf = 0) THEN NotANumber
    ELSE IF hasExp /\ (ne = 0 \/ ne + 2 # Len(r2)) THEN NotANumber
    ELSE IF ~hasExp /\ r2 # <<>> THEN NotANumber
    ELSE IF exp < nf THEN NotANumber
    ELSE [ok |-> TRUE, n |-> IF neg THEN 0 - val ELSE val]

\* Mutant: the op_code is left as the application gave it.
CoerceOpCodeLeavesNumber(x) == x

\* handleEncodedData, lines 177-179: the op_code becomes its %v text.
CoerceOpCode(x) == IF x.t = "absent" THEN x ELSE Str(Sprintf(x))

\* handleEncodedData, lines 182-189: a []byte or string payload becomes the
\* base64 text of its bytes; anything else is left alone.
EncodeData(x) ==
    IF x.t \in {"bytes", "string"} THEN Str(Base64Encode(x.v)) ELSE x

\* handleEncodedData(msg, field), lines 173-192: rewrites the value under
\* key field of the map, in place.
HandleEncodedData(msg, field) ==
    IF msg.kind = field
    THEN [msg EXCEPT !.opCode = CoerceOpCode(@), !.data = EncodeData(@)]
    ELSE msg

\* decodeReceivedData(msg, field), lines 195-208: a string payload that is
\* valid base64 is replaced by the decoded []byte.
DecodeReceivedData(msg, field) ==
    IF msg.kind = field /\ msg.data.t = "string" /\ Base64Decode(msg.data.v).ok
    THEN [msg EXCEPT !.data = Bytes(Base64Decode(msg.data.v).v)]
    ELSE msg

\* json.Marshal of one field: a []byte is written as the base64 text of its
\* bytes, a string as a string, a number as a number.
MarshalValue(x) ==
    CASE x.t = "bytes" -> Str(Base64Encode(x.v))
      [] x.t \in {"int", "float64"} -> JsonNum(x.n)
      [] OTHER -> x

\* json.Unmarshal into map[string]interface{}: a number becomes a float64.
UnmarshalValue(x) == IF x.t = "number" THEN FloatNum(x.n) ELSE x

JsonMarshal(msg) ==
    [msg EXCEPT !.opCode = MarshalValue(@), !.data = MarshalValue(@)]
JsonUnmarshal(frame) ==
    [frame EXCEPT !.opCode = UnmarshalValue(@), !.data = UnmarshalValue(@)]

\* The inbound envelope the server makes of a data-send envelope it relays.
RelayKind(kind) ==
    CASE kind = "match_data_send" -> "match_data"
      [] kind = "party_data_send" -> "party_data"
      [] OTHER -> kind

\* The envelopes the application builds.
EnvelopeKinds == {"match_data_send", "party_data_send", "channel_message_send"}
ByteSample == {0, 173, 190, 222, 239}
TextSample == {<<>>, <<104, 105>>, <<81, 85, 74, 68>>}

RECURSIVE SeqsUpTo(_, _)
SeqsUpTo(S, k) ==
    IF k = 0 THEN {<<>>}
    ELSE LET shorter == SeqsUpTo(S, k - 1) IN
         shorter \cup {Append(q, x) : q \in shorter, x \in S}

Payloads ==
    {Absent} \cup {Bytes(b) : b \in SeqsUpTo(ByteSample, MaxPayloadLen)}
             \cup {Str(c) : c \in TextSample}

OpCodes ==
    {Absent} \cup {IntNum(n) : n \in {0, 7, 0 - 12, 1234567}}
             \cup {FloatNum(n) : n \in {7, 1000000, 0 - 1234500, 100000}}
             \cup {Str(c) : c \in {<<55>>, <<52, 50>>, <<120>>}}

CodecStart(env) ==
    /\ given = env
    /\ envelope = env
    /\ nSends = 0
    /\ wire = <<>>
    /\ echoOf = 0
    /\ incoming = NoMsg
    /\ received = NoMsg

\* Send, lines 104-118, on an open connection: both data-send keys are
\* rewritten in the caller's map, the map is marshalled and the text frame
\* written.
CodecSend ==
    /\ nSends < MaxSends
    /\ nSends' = nSends + 1
    /\ LET m == HandleEncodedData(HandleEncodedData(envelope, "match_data_send"),
                                  "party_data_send") IN
       /\ envelope' = m
       /\ wire' = Append(wire, JsonMarshal(m))
    /\ UNCHANGED <<given, echoOf, incoming, received>>
    /\ UNCHANGED <<adapterVars, sessionVars>>

\* The server relays frame i to the adapter as the corresponding inbound
\* envelope, and the receive loop reads it (line 131).
CodecEcho(i) ==
    /\ echoOf = 0
    /\ i \in 1..Len(wire)
    /\ echoOf' = i
    /\ incoming' = [wire[i] EXCEPT !.kind = RelayKind(@)]
    /\ UNCHANGED <<given, envelope, nSends, wire, received>>
    /\ UNCHANGED <<adapterVars, sessionVars>>

\* listen, lines 148-168: the frame is unmarshalled, both data keys are
\* decoded, the map is marshalled again and the bytes go to onMessage.
CodecReceive ==
    /\ incoming # NoMsg
    /\ LET m == JsonUnmarshal(incoming)
           d == DecodeReceivedData(DecodeReceivedData(m, "match_data"), "party_data") IN
       received' = JsonMarshal(d)
    /\ incoming' = NoMsg
    /\ UNCHANGED <<given, envelope, nSends, wire, echoOf>>
    /\ UNCHANGED <<adapterVars, sessionVars>>

\* ---------------------------------------------------------- specification

\* The adapter's specifications leave the client and the codec alone, in
\* this state.
Init ==
    /\ AdapterInit
    /\ SessionStart(NewSession(600, TRUE), FALSE)
    /\ CodecStart(NoMsg)

\* The client's specification starts from any first session and setting.
InitClient ==
    /\ AdapterInit
    /\ \E exp \in InitExpiries, withRefresh \in BOOLEAN, auto \in BOOLEAN :
          SessionStart(NewSession(exp, withRefresh), auto)
    /\ CodecStart(NoMsg)

Next ==
    \/ \E th \in Threads : Close(th)
    \/ \E th \in Threads, ok \in BOOLEAN : ConnectDial(th, ok)
    \/ \E th \in Threads : ConnectOnOpen(th)
    \/ \E th \in Threads : ConnectReturn(th)
    \/ \E th \in Threads, marshalOk \in BOOLEAN : SendBegin(th, marshalOk)
    \/ \E th \in Threads, ok \in BOOLEAN : SendEnd(th, ok)
    \/ \E l \in Conns : ListenRead(l)
    \/ \E l \in Conns, parses \in BOOLEAN : ListenRecv(l, parses)
    \/ \E l \in Conns : ListenDispatch(l)
    \/ \E l \in Conns, kind \in {"closed", "abnormal"} : ListenReadErr(l, kind)
    \/ \E l \in Conns : ListenClose(l)
    \/ \E t \in Conns : ServerSend(t)
    \/ \E t \in Conns : RemoteFail(t)

Spec == Init /\ [][Next]_vars

\* Every step of receive loop l.
ListenStep(l) ==
    \/ ListenRead(l)
    \/ \E parses \in BOOLEAN : ListenRecv(l, parses)
    \/ ListenDispatch(l)
    \/ \E kind \in {"closed", "abnormal"} : ListenReadErr(l, kind)
    \/ ListenClose(l)

\* The steps that finish a call an application thread is in the middle of.
CallStep(th) ==
    \/ ConnectOnOpen(th)
    \/ ConnectReturn(th)
    \/ \E ok \in BOOLEAN : SendEnd(th, ok)

\* The adapter under the Go scheduler: a goroutine that can take a step
\* eventually takes one (a receive loop whose read has returned or whose
\* wait for the mutex can end, a call that has begun).  Nothing obliges the
\* application to make a call, the server to send or the network to fail.
SpecFair ==
    /\ Spec
    /\ \A l \in Conns : WF_vars(ListenStep(l))
    /\ \A th \in Threads : WF_vars(CallStep(th))

\* The adapter with a server that sends up to MaxOrderFrames frames, and
\* the calls of onMessage recorded.
NextOrder ==
    \/ \E th \in Threads : Close(th)
    \/ \E th \in Threads, ok \in BOOLEAN : ConnectDial(th, ok)
    \/ \E th \in Threads : ConnectOnOpen(th)
    \/ \E th \in Threads : ConnectReturn(th)
    \/ \E th \in Threads, marshalOk \in BOOLEAN : SendBegin(th, marshalOk)
    \/ \E th \in Threads, ok \in BOOLEAN : SendEnd(th, ok)
    \/ \E l \in Conns : ListenRead(l)
    \/ \E l \in Conns, parses \in BOOLEAN : ListenRecv(l, parses)
    \/ \E l \in Conns : ListenDispatch(l)
    \/ \E l \in Conns, kind \in {"closed", "abnormal"} : ListenReadErr(l, kind)
    \/ \E l \in Conns : ListenClose(l)
    \/ \E t \in Conns : ServerSendMore(t)
    \/ \E t \in Conns : RemoteFail(t)

InitOrder ==
    /\ AdapterStart(TRUE)
    /\ SessionStart(NewSession(600, TRUE), FALSE)
    /\ CodecStart(NoMsg)

SpecOrder == InitOrder /\ [][NextOrder]_vars

\* The adapter with callbacks that may call IsOpen() or Close() on it.
NextCallbacks ==
    \/ \E th \in Threads : Close(th)
    \/ \E th \in Threads, ok \in BOOLEAN : ConnectDial(th, ok)
    \/ \E th \in Threads : ConnectOnOpen(th)
    \/ \E th \in Threads : ConnectReturn(th)
    \/ \E th \in Threads, marshalOk \in BOOLEAN : SendBegin(th, marshalOk)
    \/ \E th \in Threads, ok \in BOOLEAN : SendEnd(th, ok)
    \/ \E l \in Conns : ListenRead(l)
    \/ \E l \in Conns, parses \in BOOLEAN : ListenRecv(l, parses)
    \/ \E l \in Conns : ListenDispatch(l)
    \/ \E l \in Conns, kind \in {"closed", "abnormal"} : ListenReadErr(l, kind)
    \/ \E l \in Conns : ListenClose(l)
    \/ \E t \in Conns : ServerSend(t)
    \/ \E t \in Conns : RemoteFail(t)
    \/ \E th \in Threads : ConnectOnOpenCallsIn(th)
    \/ \E l \in Conns : ListenDispatchCallsIn(l)
    \/ \E l \in Conns : ListenErrorCallsIn(l)
    \/ \E who \in {"app", "loop"}, i \in Threads \cup Conns, m \in CallbackCalls :
          CallbackCallReturns(who, i, m)

SpecCallbacks == Init /\ [][NextCallbacks]_vars

\* The session-aware client: gated operations and direct refreshes by the
\* application threads, on one Session.
NextClient ==
    \/ \E th \in Threads : GateCheck(th)
    \/ \E th \in Threads, ref \in {NIL, 1} : RefreshCall(th, ref)
    \/ \E th \in Threads : RefreshRequest(th)
    \/ \E th \in Threads, ok \in BOOLEAN : RefreshResponse(th, ok)
    \/ \E th \in Threads : ApiPrepare(th)
    \/ \E th \in Threads, ok \in BOOLEAN : ApiSend(th, ok)
    \/ Tick

SpecClient == InitClient /\ [][NextClient]_vars

\* The codec: the application builds any envelope of the bounded sets and
\* sends it; the server relays a frame; the receive loop delivers it.
InitCodec ==
    /\ AdapterInit
    /\ SessionStart(NewSession(600, TRUE), FALSE)
    /\ \E kind \in EnvelopeKinds, opCode \in OpCodes, data \in Payloads :
          CodecStart(Envelope(kind, opCode, data))

NextCodec ==
    \/ CodecSend
    \/ \E i \in 1..MaxSends : CodecEcho(i)
    \/ CodecReceive

SpecCodec == InitCodec /\ [][NextCodec]_vars

\* ==================================================================== claims

\* A step in which some application thread calls Connect (its dial).
ConnectCalled == \E th \in Threads, ok \in BOOLEAN : ConnectDial(th, ok)

\* C1: Connect called while the adapter holds a live handle returns an error
\* and leaves the existing connection in place: the handle is not replaced
\* and the call goes on to no open-callback and no second receive loop.
C1_ConnectWhileConnectedFails ==
    [][(ConnectCalled /\ socket # NIL)
          => /\ returned' = "ConnectErr"
             /\ socket' = socket
             /\ UNCHANGED <<app, nDialed, tstate>>]_vars

\* C2: in every reachable state the adapter has at most one transport that
\* was opened and is not yet closed.
C2_AtMostOneOpenTransport ==
    Cardinality({t \in Conns : tstate[t] = "open"}) <= 1

\* C3: IsOpen() is false before any Connect, true right after a successful
\* Connect returns, false right after Close() returns, and false right after
\* the receive loop has finished handling an abnormal read failure.
C3_IsOpenFollowsLifecycle ==
    /\ nDialed = 0 => ~IsOpen
    /\ returned = "ConnectOk" => IsOpen
    /\ CloseReturned => ~IsOpen
    /\ returned = "ListenDoneAbnormal" => ~IsOpen

\* C3 witness: a connection was opened, its read failed abnormally, and the
\* loop has just finished handling that.
C3_Witness ==
    /\ returned = "ListenDoneAbnormal"
    /\ nDialed = 1
    /\ closes[1] = 1
    /\ ~IsOpen

\* C4: Send called with no handle held (before any Connect, or after Close)
\* returns the not-connected error, starts no transport write and leaves the
\* connection state as it was.
C4_SendWithoutHandle ==
    [][\A th \in Threads, m \in BOOLEAN :
          (SendBegin(th, m) /\ socket = NIL)
             => /\ returned' = "SendNotConnected"
                /\ UNCHANGED <<socket, mu, app, tstate, closes, writing, written>>]_vars

\* C4 witness: a Send has just been refused after a connection was opened
\* and closed again.
C4_Witness ==
    /\ returned = "SendNotConnected"
    /\ socket = NIL
    /\ \E t \in Conns : tstate[t] = "closed"

\* C5: Close() leaves the adapter disconnected, never invokes onClose, never
\* closes a transport a second time, and a Close() right after a Close()
\* changes nothing.
C5_CloseIdempotentNoCallback ==
    [][\A th \in Threads :
          Close(th)
             => /\ socket' = NIL
                /\ onCloseCount' = onCloseCount
                /\ \A t \in Conns : closes'[t] <= 1
                /\ CloseReturned => UNCHANGED <<socket, tstate, closes>>]_vars

\* C5 witness: Close() has just returned for the second time in a row, on an
\* adapter whose connection the first of the two closed.
C5_Witness ==
    /\ returned = "CloseAgain"
    /\ \E t \in Conns : closes[t] = 1
    /\ onCloseCount = 0

\* C6: when a read fails with an unexpected close error and the handle is
\* live, the loop invokes onError once and onClose once, and its next step
\* clears the handle and ends the loop.
C6_AbnormalReadError ==
    [][\A l \in Conns :
          /\ (ListenReadErr(l, "abnormal") /\ socket # NIL)
                => /\ loop'[l].pc = "closing"
                   /\ loop'[l].nErr = 1
                   /\ loop'[l].nClose = 1
                   /\ onCloseCount' = onCloseCount + 1
          /\ (loop[l].pc = "closing" /\ loop[l].err = "abnormal" /\ loop'[l] # loop[l])
                => /\ loop'[l].pc = "done"
                   /\ socket' = NIL
                   /\ onCloseCount' = onCloseCount]_vars

\* C6 witness: a loop has just returned after handling an abnormal read
\* failure, with onClose invoked once in the whole run.
C6_Witness ==
    /\ returned = "ListenDoneAbnormal"
    /\ onCloseCount = 1
    /\ socket = NIL
    /\ \E l \in Conns : loop[l].pc = "done"

\* C7: a loop whose read failed because the connection was closed locally
\* invokes neither onError nor onClose.
C7_NoCallbacksAfterLocalClose ==
    \A l \in Conns :
        loop[l].err = "closed" => (loop[l].nErr = 0 /\ loop[l].nClose = 0)

\* C8 as stated: once a frame failed to parse, the loop is on its way to
\* Close() and termination (it does not go back to reading).
C8_ParseErrorClosesAndStops ==
    \A l \in Conns : loop[l].nParse > 0 => loop[l].pc \in {"closing", "done"}

\* C8 as amended: a frame that does not parse makes the loop invoke onError
\* once and go on to the next read; Close() is not called and the handle,
\* the transports and onClose are left alone.
C8_ParseErrorContinues ==
    [][\A l \in Conns :
          ListenRecv(l, FALSE)
             => /\ loop'[l].nParse = loop[l].nParse + 1
                /\ loop'[l].pc = "start"
                /\ UNCHANGED <<socket, tstate, closes, onCloseCount>>]_vars

\* C8 witness: a loop reported a parse error and is blocked in the next read
\* of a connection that is still open.
C8_Witness ==
    \E l \in Conns :
        /\ loop[l].nParse = 1
        /\ loop[l].pc = "reading"
        /\ socket # NIL
        /\ tstate[socket] = "open"

\* C9: at most one Send is writing to a transport at a time, a Send never
\* writes to a transport that has been closed locally, and a Send that
\* succeeds adds exactly one whole frame to the transport it wrote to.
C9_SendAtomicAndLive ==
    [][/\ \A t \in Conns : Cardinality(writing'[t]) <= 1
       /\ \A th \in Threads :
             app'[th].pc = "sWrite" => tstate'[app'[th].c] = "open"
       /\ \A th \in Threads :
             SendEnd(th, TRUE)
                => /\ returned' = "SendOk"
                   /\ written' = [written EXCEPT ![app[th].c] = @ + 1]]_vars

\* C9 witness: a Send is in the middle of its write on a transport that
\* already carries the frame of an earlier Send.
C9_Witness ==
    \E th \in Threads :
        /\ app[th].pc = "sWrite"
        /\ written[app[th].c] = 1
        /\ writing[app[th].c] = {th}

\* C10: a Send whose transport write fails returns the write error and
\* leaves the connection as it was: the same handle is held, still open.
C10_FailedWriteKeepsConnection ==
    [][\A th \in Threads :
          SendEnd(th, FALSE)
             => /\ returned' = "SendWriteErr"
                /\ socket' = socket
                /\ socket' = app[th].c
                /\ IsOpen'
                /\ UNCHANGED <<tstate, closes, written>>]_vars

\* C10 witness: a Send has just returned a write error and the adapter is
\* still connected.
C10_Witness ==
    /\ returned = "SendWriteErr"
    /\ IsOpen
    /\ tstate[socket] = "open"

\* C11: the frames of a transport reach onMessage in the order the server
\* sent them, each at most once.
C11_DeliveredInTransportOrder ==
    \A i, j \in 1..Len(delivered.log) :
        (i < j /\ delivered.log[i].conn = delivered.log[j].conn)
            => delivered.log[i].seq < delivered.log[j].seq

\* C12: once the connection a receive loop was started for has been closed
\* by Close(), that loop eventually terminates (or the process is gone).
C12_LoopEndsAfterClose ==
    \A l \in Conns :
        (tstate[l] = "closed") ~> (crashed \/ loop[l].pc = "done")

\* C13: every successful Connect invokes onOpen exactly once, before it
\* returns and before its receive loop is started, and starts one receive
\* loop, its connection's: the callback has run once for every dialed
\* connection but one whose Connect has not reached it yet, a Connect that is
\* still in progress has no loop, and the loops started are those of the
\* connections whose Connect returned.
C13_OnOpenOnceBeforeLoop ==
    LET inOpen == {th \in Threads : app[th].pc = "cOpen"}
        inSpawn == {th \in Threads : app[th].pc = "cSpawn"} IN
    /\ onOpenCount = nDialed - Cardinality(inOpen)
    /\ \A th \in inOpen \cup inSpawn : loop[app[th].c].pc = "off"
    /\ {l \in Conns : loop[l].pc # "off"}
          = 1..(nDialed - Cardinality(inOpen \cup inSpawn))
    /\ returned = "ConnectOk"
          => /\ onOpenCount = nDialed
             /\ loop[nDialed].pc = "start"

\* C13 witness: the second successful Connect has just returned, with onOpen
\* invoked twice in the run and the second loop started and not yet running.
C13_Witness ==
    /\ returned = "ConnectOk"
    /\ nDialed = 2
    /\ onOpenCount = 2
    /\ loop[2].pc = "start"

\* C14: a Connect whose dial fails returns the error in that same step,
\* leaves the adapter without a handle, invokes no onOpen and starts no
\* receive loop.
C14_FailedConnect ==
    [][\A th \in Threads :
          ConnectDial(th, FALSE)
             => /\ returned' = "ConnectErr"
                /\ ~IsOpen'
                /\ app'[th].pc = "idle"
                /\ UNCHANGED <<onOpenCount, loop, mu, nDialed, tstate>>]_vars

\* C14 witness: a Connect has just failed on an adapter that was connected;
\* no handle is held and onOpen ran for the first connection only.
C14_Witness ==
    /\ returned = "ConnectErr"
    /\ ~IsOpen
    /\ nDialed = 1
    /\ onOpenCount = 1
    /\ loop[2].pc = "off"

\* C15: a gated operation whose gate finds the session due for a refresh
\* goes to RefreshSession first and has made exactly one refresh request
\* when it evaluates the token for the underlying call (one that was not due
\* has made none); if the refresh fails the operation returns the refresh
\* error in that step and sends no underlying request.
C15_OneRefreshBeforeCall ==
    [][\A th \in Threads :
          /\ (GateCheck(th) /\ NeedsRefresh) => op'[th].pc = "refresh"
          /\ ApiPrepare(th) => op[th].nReq = (IF op[th].due THEN 1 ELSE 0)
          /\ (RefreshResponse(th, FALSE) /\ ~op[th].direct)
                => /\ outcome' = "OpRefreshErr"
                   /\ op'[th] = IdleOp
                   /\ UNCHANGED <<nApiCalls, sentToken>>]_vars

\* C15 witness: a gated operation that was due for a refresh has refreshed
\* once and is about to send the underlying request with the new token.
C15_Witness ==
    \E th \in Threads :
        /\ op[th].pc = "sending"
        /\ op[th].due
        /\ op[th].nReq = 1
        /\ op[th].tok = session.token
        /\ session.token.id = 2

\* C16: a refresh that fails returns the error and leaves the Session as it
\* was; a refresh that succeeds replaces both tokens of that Session by the
\* pair the server returned; nothing else changes the Session.
C16_FailedRefreshLeavesSession ==
    [][/\ \A th \in Threads :
             RefreshResponse(th, FALSE)
                => /\ session' = session
                   /\ outcome' \in {"RefreshErr", "OpRefreshErr"}
       /\ \A th \in Threads :
             RefreshResponse(th, TRUE)
                => /\ session'.token.id = nIssued + 2
                   /\ session'.refreshToken.id = nIssued + 2
                   /\ session'.token # session.token
       /\ session' # session
             => \E th \in Threads : RefreshResponse(th, TRUE)]_vars

\* C16 witness: a direct refresh has just failed on a Session that an
\* earlier refresh had updated; it still holds the tokens of that refresh.
C16_Witness ==
    /\ outcome = "RefreshErr"
    /\ session.token.id = 2
    /\ session.refreshToken.id = 2
    /\ nRefreshReq = 2

\* C17: RefreshSession called with a nil session returns the
\* invalid-argument error in that step and sends no refresh request.
C17_NilSessionRefused ==
    [][\A th \in Threads :
          RefreshCall(th, NIL)
             => /\ outcome' = "RefreshNilErr"
                /\ op'[th].pc = "idle"
                /\ UNCHANGED <<nRefreshReq, session, nIssued>>]_vars

\* C17 witness: a RefreshSession(nil) has just been refused, after a refresh
\* of the Session itself had gone through.
C17_Witness ==
    /\ outcome = "RefreshNilErr"
    /\ nRefreshReq = 1
    /\ session.token.id = 2

\* C18: gated operations that run at the same time and found the same
\* expired token make at most one refresh request between them, and an
\* underlying request carries the token the Session holds when it is sent.
C18_NoRefreshStormNoStaleToken ==
    /\ \A t1, t2 \in Threads :
          (/\ t1 # t2
           /\ op[t1].due /\ op[t2].due
           /\ op[t1].seen = op[t2].seen)
              => op[t1].nReq + op[t2].nReq <= 1
    /\ outcome \in {"OpOk", "OpErr"} => sentToken = session.token

\* The two outbound kinds that carry a data payload.
DataSendKinds == {"match_data_send", "party_data_send"}

\* C19: when the first frame of a data-send envelope whose data was given
\* as the bytes p comes back as the corresponding inbound envelope, the data
\* field of what onMessage is handed consists of the bytes p.
C19_PayloadRoundTrip ==
    (/\ received # NoMsg
     /\ echoOf = 1
     /\ given.kind \in DataSendKinds
     /\ given.data.t = "bytes")
        => received.data.v = given.data.v

\* C20: the op_code of every frame written for a data-send envelope that was
\* given a numeric or string op_code is a string, and when the op_code given
\* has a numeric value that string reads back as the same value.
C20_OpCodeWireString ==
    \A i \in 1..Len(wire) :
        (given.kind \in DataSendKinds /\ given.opCode.t \in {"int", "float64", "string"})
            => /\ wire[i].opCode.t = "string"
               /\ LET want == IF given.opCode.t = "string"
                              THEN ParseNumber(given.opCode.v)
                              ELSE [ok |-> TRUE, n |-> given.opCode.n] IN
                  want.ok => ParseNumber(wire[i].opCode.v) = want

\* C20 witness: a match_data_send envelope given the float64 op_code 1e6 has
\* been written with the op_code "1e+06".
C20_Witness ==
    /\ Len(wire) = 1
    /\ given.kind = "match_data_send"
    /\ given.opCode = FloatNum(1000000)
    /\ wire[1].opCode = Str(<<49, 101, 43, 48, 54>>)


\* C21: a receive loop acts only on the connection it was started for.
\* When the read of loop l on its own connection fails because Close() closed
\* that connection, the loop fires no callback (whatever handle the adapter
\* holds by then), and the step the loop takes after a read error closes no
\* transport but its own.
C21_LoopKeepsToItsConnection ==
    [][\A l \in Conns :
          /\ (ListenReadErr(l, "closed") /\ loop[l].rd = l)
                => /\ loop'[l].nErr = 0
                   /\ loop'[l].nClose = 0
                   /\ onCloseCount' = onCloseCount
          /\ (loop[l].pc = "closing" /\ loop'[l] # loop[l])
                => \A t \in Conns \ {l} :
                      tstate'[t] = tstate[t] /\ closes'[t] = closes[t]]_vars


\* C22: the adapter invokes no callback while the invoking goroutine holds
\* the mutex, and no goroutine waits, in a call a callback made into the
\* adapter, for a mutex that it holds itself (a wait that cannot end).
C22_CallbacksOutsideMutex ==
    [][/\ \A th \in Threads :
             (ConnectOnOpen(th) \/ ConnectOnOpenCallsIn(th)) => mu # th
       /\ \A th \in Threads : app'[th].pc = "cbLock" => mu' # th]_vars

\* C23: the receive loop never calls ReadMessage on a nil handle: whenever a
\* loop evaluates w.socket for its next read, a handle is held, and no loop
\* panics.
C23_NoReadOnNilHandle ==
    [][\A l \in Conns :
          ListenRead(l) => (socket # NIL /\ loop'[l].pc # "panic" /\ ~crashed')]_vars

\* C24: when the same data-send envelope object has been passed to Send
\* twice, the two frames written are identical, and the data of the second
\* is the base64 text of the payload the application gave.
C24_ResendWritesSameFrame ==
    (Len(wire) = 2 /\ given.kind \in DataSendKinds)
        => /\ wire[2] = wire[1]
           /\ given.data.t \in {"bytes", "string"}
                 => wire[2].data = Str(Base64Encode(given.data.v))

=============================================================================
